---- MODULE Spec2Model ----
(***************************************************************************)
(* Model of the Well-Architected review tool: the Streamlit client         *)
(* (streamlit_v1.py: size validation, API call, table parser, renderers)   *)
(* and the Lambda back end (lambda_v1.py: lambda_handler and the Bedrock   *)
(* call).  Python strings are modelled as sequences of one-character       *)
(* strings so that strip, split, startswith, `in` and upper are computed   *)
(* the way the code computes them.                                         *)
(***************************************************************************)
EXTENDS Integers, Sequences, FiniteSets, TLC

VARIABLES
  \* parse_analysis_results
  analysis_text, lines, idx, results, pc, ret, errors,
  \* display_results, the two downloads
  shown_pillars, high_priority_items, display_lines, json_export,
  report_items, report_text,
  \* main and the client's analyze_architecture
  image_len, image_valid, reencoded, calls, response,
  \* lambda_handler and the Bedrock call
  event, model_reply, model_calls, extracted, lambda_response

parseVars == <<analysis_text, lines, idx, results, pc, ret, errors>>
renderVars == <<shown_pillars, high_priority_items, display_lines, json_export,
                report_items, report_text>>
mainVars == <<image_len, image_valid, reencoded, calls, response>>
lambdaVars == <<event, model_reply, model_calls, extracted, lambda_response>>
vars == <<parseVars, renderVars, mainVars, lambdaVars>>

\* ------------------------------------------------------------------ bounds
MaxLines == 2

\* ------------------------------------------------- Python string primitives
WhiteSpace == {" ", "\t", "\r", "\n"}

RECURSIVE LStrip(_, _)
LStrip(s, cs) ==
  IF s = <<>> THEN s
  ELSE IF Head(s) \in cs THEN LStrip(Tail(s), cs) ELSE s

RECURSIVE RStrip(_, _)
RStrip(s, cs) ==
  IF s = <<>> THEN s
  ELSE IF s[Len(s)] \in cs THEN RStrip(SubSeq(s, 1, Len(s) - 1), cs) ELSE s

\* str.strip(chars): removes every leading and trailing character of the set
StripChars(s, cs) == RStrip(LStrip(s, cs), cs)

\* str.strip()
Strip(s) == StripChars(s, WhiteSpace)

StartsWith(s, pre) ==
  /\ Len(s) >= Len(pre)
  /\ SubSeq(s, 1, Len(pre)) = pre

\* `sub in s`
Contains(sub, s) ==
  \E i \in 1..(Len(s) - Len(sub) + 1) :
    /\ sub # <<>> => s[i] = sub[1]
    /\ SubSeq(s, i, i + Len(sub) - 1) = sub

FirstIndex(s, sep) ==
  LET hits == {i \in 1..(Len(s) - Len(sep) + 1) :
                 s[i] = sep[1] /\ SubSeq(s, i, i + Len(sep) - 1) = sep}
  IN IF hits = {} THEN 0 ELSE CHOOSE i \in hits : \A j \in hits : i <= j

\* str.split(sep)
RECURSIVE Split(_, _)
Split(s, sep) ==
  LET i == FirstIndex(s, sep)
  IN IF i = 0 THEN <<s>>
     ELSE <<SubSeq(s, 1, i - 1)>> \o Split(SubSeq(s, i + Len(sep), Len(s)), sep)

\* sep.join(parts)
RECURSIVE Join(_, _)
Join(parts, sep) ==
  IF parts = <<>> THEN <<>>
  ELSE IF Len(parts) = 1 THEN parts[1]
  ELSE parts[1] \o sep \o Join(Tail(parts), sep)

\* [x for x in xs if x]
RECURSIVE NonEmpty(_)
NonEmpty(xs) ==
  IF xs = <<>> THEN <<>>
  ELSE IF Head(xs) = <<>> THEN NonEmpty(Tail(xs))
       ELSE <<Head(xs)>> \o NonEmpty(Tail(xs))

LowerAlpha == <<"a","b","c","d","e","f","g","h","i","j","k","l","m",
                "n","o","p","q","r","s","t","u","v","w","x","y","z">>
UpperAlpha == <<"A","B","C","D","E","F","G","H","I","J","K","L","M",
                "N","O","P","Q","R","S","T","U","V","W","X","Y","Z">>

UpperChar(c) ==
  IF \E i \in 1..26 : LowerAlpha[i] = c
  THEN UpperAlpha[CHOOSE i \in 1..26 : LowerAlpha[i] = c]
  ELSE c

UpperIdentity(s) == s
\* str.upper()
Upper(s) == [i \in 1..Len(s) |-> UpperChar(s[i])]

\* s * n
RECURSIVE Repeat(_, _)
Repeat(s, n) == IF n <= 0 THEN <<>> ELSE s \o Repeat(s, n - 1)

\* --------------------------------------------------------- the six pillars
OperationalExcellence == <<"O","p","e","r","a","t","i","o","n","a","l"," ","E","x","c","e","l","l","e","n","c","e">>
Security == <<"S","e","c","u","r","i","t","y">>
Reliability == <<"R","e","l","i","a","b","i","l","i","t","y">>
PerformanceEfficiency == <<"P","e","r","f","o","r","m","a","n","c","e"," ","E","f","f","i","c","i","e","n","c","y">>
CostOptimization == <<"C","o","s","t"," ","O","p","t","i","m","i","z","a","t","i","o","n">>
Sustainability == <<"S","u","s","t","a","i","n","a","b","i","l","i","t","y">>

PillarOrder == <<OperationalExcellence, Security, Reliability,
                 PerformanceEfficiency, CostOptimization, Sustainability>>

EmptyDetails(p) ==
  [pillar |-> p, strengths |-> <<>>, risks |-> <<>>,
   risk_level |-> <<>>, recommendations |-> <<>>]

\* the results dict, in insertion order
InitialResults == [i \in 1..6 |-> EmptyDetails(PillarOrder[i])]

\* results.keys()
Keys(res) == [i \in 1..Len(res) |-> res[i].pillar]

KeyIndex(res, k) ==
  IF \E i \in 1..Len(res) : res[i].pillar = k
  THEN CHOOSE i \in 1..Len(res) : res[i].pillar = k
  ELSE 0

\* results[k] = details : replaces in place, or appends a new key
DictSet(res, k, d) ==
  IF KeyIndex(res, k) = 0 THEN Append(res, d)
  ELSE [res EXCEPT ![KeyIndex(res, k)] = d]

\* ------------------------------------------------- parse_analysis_results
BR == <<"<","b","r",">">>
BulletChars == {"-", " "}

\* parts = [part.strip() for part in line.split('|')]; parts = [p for p in parts if p]
Parts(line) ==
  LET raw == Split(line, <<"|">>)
  IN NonEmpty([i \in 1..Len(raw) |-> Strip(raw[i])])

\* [s.strip('- ') for s in cell.split('<br>')] followed by [s for s in ... if s]
Fragments(cell) ==
  LET raw == Split(cell, BR)
  IN NonEmpty([i \in 1..Len(raw) |-> StripChars(raw[i], BulletChars)])

\* for known_pillar in results.keys(): if known_pillar in pillar_name: ... break
MatchedKey(res, pillar_name) ==
  LET ks == Keys(res)
      hits == {i \in 1..Len(ks) : Contains(ks[i], pillar_name)}
  IN IF hits = {} THEN <<>>
     ELSE ks[CHOOSE i \in hits : \A j \in hits : i <= j]

UpdateResultsMerge(res, known_pillar, parts) ==
  LET old == res[KeyIndex(res, known_pillar)]
  IN DictSet(res, known_pillar,
       [pillar |-> known_pillar,
        strengths |-> old.strengths \o Fragments(parts[2]),
        risks |-> old.risks \o Fragments(parts[3]),
        risk_level |-> parts[4],
        recommendations |-> old.recommendations \o Fragments(parts[5])])

UpdateResultsCellKey(res, known_pillar, parts) ==
  DictSet(res, parts[1],
     [pillar |-> parts[1],
      strengths |-> Fragments(parts[2]),
      risks |-> Fragments(parts[3]),
      risk_level |-> parts[4],
      recommendations |-> Fragments(parts[5])])

\* results[current_pillar][...] = ... for the four fields
UpdateResults(res, known_pillar, parts) ==
  DictSet(res, known_pillar,
     [pillar |-> known_pillar,
      strengths |-> Fragments(parts[2]),
      risks |-> Fragments(parts[3]),
      risk_level |-> parts[4],
      recommendations |-> Fragments(parts[5])])

SeparatorPrefix == <<"|"," ","-","-","-">>

\* if not line or line.startswith('| ---'): continue
IsSkipped(raw) ==
  LET line == Strip(raw) IN line = <<>> \/ StartsWith(line, SeparatorPrefix)

\* if line.startswith('|')
IsTableRow(raw) == ~IsSkipped(raw) /\ StartsWith(Strip(raw), <<"|">>)

\* if len(parts) >= 5
IsCandidate(raw) == IsTableRow(raw) /\ Len(Parts(Strip(raw))) >= 5

IsMatched(res, raw) ==
  IsCandidate(raw) /\ MatchedKey(res, Parts(Strip(raw))[1]) # <<>>

\* one iteration of `for line in lines`
LoopBody(res, raw) ==
  IF IsMatched(res, raw)
  THEN LET parts == Parts(Strip(raw))
       IN UpdateResults(res, MatchedKey(res, parts[1]), parts)
  ELSE res

\* any(pillar_data.values())
AnyValues(d) ==
  \/ d.strengths # <<>>
  \/ d.risks # <<>>
  \/ d.risk_level # <<>>
  \/ d.recommendations # <<>>

HasContentAlways(res) == TRUE
\* the has_content loop
HasContent(res) == \E i \in 1..Len(res) : AnyValues(res[i])

\* ------------------------------------------------------- display / report
RECURSIVE ItemsOf(_, _)
ItemsOf(pillar, recs) ==
  IF recs = <<>> THEN <<>>
  ELSE <<pillar \o <<":"," ">> \o Head(recs)>> \o ItemsOf(pillar, Tail(recs))

HIGH == <<"H","I","G","H">>

\* the high_priority_items comprehension of display_results
RECURSIVE DisplayHighPriority(_)
DisplayHighPriority(res) ==
  IF res = <<>> THEN <<>>
  ELSE (IF Upper(Head(res).risk_level) = HIGH
        THEN ItemsOf(Head(res).pillar, Head(res).recommendations)
        ELSE <<>>) \o DisplayHighPriority(Tail(res))

\* the high_priority_items comprehension of create_download_link
RECURSIVE ReportHighPriority(_)
ReportHighPriority(res) ==
  IF res = <<>> THEN <<>>
  ELSE (IF Upper(Head(res).risk_level) = HIGH
        THEN ItemsOf(Head(res).pillar, Head(res).recommendations)
        ELSE <<>>) \o ReportHighPriority(Tail(res))

Dashed(xs) == [i \in 1..Len(xs) |-> <<"-"," ">> \o xs[i]]

NoneIdentified == <<"N","o"," ","h","i","g","h","-","p","r","i","o","r","i","t","y"," ","i","t","e","m","s"," ","i","d","e","n","t","i","f","i","e","d",".">>

\* pillars for which display_results shows a table
RECURSIVE ShownPillars(_)
ShownPillars(res) ==
  IF res = <<>> THEN <<>>
  ELSE (IF AnyValues(Head(res)) THEN <<Head(res).pillar>> ELSE <<>>)
       \o ShownPillars(Tail(res))

\* the st.write calls under "High Priority Items"
DisplayLines(items) ==
  IF items # <<>> THEN Dashed(items) ELSE <<NoneIdentified>>

ReportSection(d) ==
  <<<<"\n">> \o d.pillar, Repeat(<<"-">>, Len(d.pillar)), <<"\n","S","t","r","e","n","g","t","h","s",":">>>>
  \o Dashed(d.strengths)
  \o <<<<"\n","R","i","s","k","s",":">>>>
  \o Dashed(d.risks)
  \o <<<<"\n","R","i","s","k"," ","L","e","v","e","l",":"," ">> \o d.risk_level, <<"\n","R","e","c","o","m","m","e","n","d","a","t","i","o","n","s",":">>>>
  \o Dashed(d.recommendations)
  \o <<<<"\n">>>>

RECURSIVE ReportSections(_)
ReportSections(res) ==
  IF res = <<>> THEN <<>>
  ELSE (IF AnyValues(Head(res)) THEN ReportSection(Head(res)) ELSE <<>>)
       \o ReportSections(Tail(res))

\* create_download_link
CreateReport(res) ==
  LET items == ReportHighPriority(res)
      report ==
        <<<<"A","W","S"," ","W","e","l","l","-","A","r","c","h","i","t","e","c","t","e","d"," ","F","r","a","m","e","w","o","r","k"," ","A","n","a","l","y","s","i","s"," ","R","e","p","o","r","t">>,
          Repeat(<<"=">>, 50) \o <<"\n">>>>
        \o ReportSections(res)
        \o <<<<"\n","H","i","g","h"," ","P","r","i","o","r","i","t","y"," ","I","t","e","m","s">>, Repeat(<<"=">>, 20)>>
        \o (IF items # <<>> THEN Dashed(items) ELSE <<NoneIdentified>>)
  IN Join(report, <<"\n">>)

\* json.dumps(..., indent=2) for the results dict (ASCII text)
RECURSIVE JsonEscape(_)
JsonEscape(s) ==
  IF s = <<>> THEN <<>>
  ELSE (CASE Head(s) = "\"" -> <<"\\", "\"">>
          [] Head(s) = "\\" -> <<"\\", "\\">>
          [] Head(s) = "\n" -> <<"\\", "n">>
          [] Head(s) = "\t" -> <<"\\", "t">>
          [] Head(s) = "\r" -> <<"\\", "r">>
          [] OTHER -> <<Head(s)>>) \o JsonEscape(Tail(s))

JsonString(s) == <<"\"">> \o JsonEscape(s) \o <<"\"">>

JsonList(xs, indent) ==
  IF xs = <<>> THEN <<"[","]">>
  ELSE <<"[", "\n">>
       \o Join([i \in 1..Len(xs) |-> Repeat(<<" ">>, indent + 2) \o JsonString(xs[i])],
               <<",", "\n">>)
       \o <<"\n">> \o Repeat(<<" ">>, indent) \o <<"]">>

JsonDetails(d) ==
  <<"{", "\n">>
  \o Join(<<<<" "," "," "," ","\"","s","t","r","e","n","g","t","h","s","\"",":"," ">> \o JsonList(d.strengths, 4),
            <<" "," "," "," ","\"","r","i","s","k","s","\"",":"," ">> \o JsonList(d.risks, 4),
            <<" "," "," "," ","\"","r","i","s","k","_","l","e","v","e","l","\"",":"," ">> \o JsonString(d.risk_level),
            <<" "," "," "," ","\"","r","e","c","o","m","m","e","n","d","a","t","i","o","n","s","\"",":"," ">> \o JsonList(d.recommendations, 4)>>,
          <<",", "\n">>)
  \o <<"\n", " ", " ", "}">>

JsonDumps(res) ==
  <<"{", "\n">>
  \o Join([i \in 1..Len(res) |->
             <<" ", " ">> \o JsonString(res[i].pillar) \o <<":", " ">>
             \o JsonDetails(res[i])],
          <<",", "\n">>)
  \o <<"\n", "}">>

\* ------------------------------------------------------------- input texts
LineSet == {
  <<"|"," ","P","i","l","l","a","r"," ","|"," ","S","t","r","e","n","g","t","h","s"," ","|"," ","R","i","s","k","s"," ","|"," ","R","i","s","k"," ","L","e","v","e","l"," ","|"," ","R","e","c","o","m","m","e","n","d","a","t","i","o","n","s"," ","|">>,
  <<"|"," ","-","-","-"," ","|"," ","-","-","-"," ","|"," ","-","-","-"," ","|"," ","-","-","-"," ","|"," ","-","-","-"," ","|">>,
  <<"|"," ","S","e","c","u","r","i","t","y"," ","|"," ","U","s","e","s"," ","I","A","M"," ","r","o","l","e","s","<","b","r",">","-"," ","E","n","c","r","y","p","t","e","d"," ","a","t"," ","r","e","s","t"," ","|"," ","N","o"," ","M","F","A"," ","e","n","f","o","r","c","e","d"," ","|"," ","H","i","g","h"," ","|"," ","E","n","a","b","l","e"," ","M","F","A","<","b","r",">","-"," ","R","o","t","a","t","e"," ","k","e","y","s"," ","|">>,
  <<"|"," ","S","e","c","u","r","i","t","y"," ","|"," ","-"," ","a","<","b","r",">","-"," ","a"," ","|"," ","b","-"," ","|"," ","h","i","g","h"," ","|"," ","-"," ","-","c","<","b","r",">"," ","<","b","r",">","d"," ","|">>,
  <<"|"," ","*","*","R","e","l","i","a","b","i","l","i","t","y","*","*"," ","|"," ","x"," ","|"," ","y"," ","|"," ","H","I","G","H"," ","|"," ","z"," ","|">>,
  <<"|"," ","S","e","c","u","r","i","t","y"," ","|"," ","|"," ","r"," ","|"," ","L","o","w"," ","|"," ","c"," ","|"," ","d"," ","|">>,
  <<"|"," ","S","e","c","u","r","i","t","y"," ","|"," ","s"," ","|"," ","r"," ","|"," ","M","e","d","i","u","m"," ","|">>,
  <<"|"," ","C","o","s","t"," ","O","p","t","i","m","i","z","a","t","i","o","n"," ","|"," ","s"," ","|"," ","|"," ","H","i","g","h"," ","|"," ","c"," ","|">>,
  <<"S","e","c","u","r","i","t","y"," ","i","s"," ","f","i","n","e",".">>,
  <<" "," ">>,
  <<"|"," ","S","e","c","u","r","i","t","y"," ","a","n","d"," ","R","e","l","i","a","b","i","l","i","t","y"," ","|"," ","s"," ","|"," ","r"," ","|"," ","L","o","w"," ","|"," ","c"," ","|">>,
  <<" "," ","|"," ","S","u","s","t","a","i","n","a","b","i","l","i","t","y"," ","|"," ","s"," ","|"," ","r"," ","|"," ","H","i","g","h","e","s","t"," ","|"," ","c"," ","|"," "," ">>,
  <<"|"," ","O","p","e","r","a","t","i","o","n","a","l"," ","E","x","c","e","l","l","e","n","c","e"," ","|"," ","a"," ","|"," ","b"," ","|"," ","M","e","d","i","u","m"," ","|"," ","c"," ","|">>,
  <<"|"," ","P","e","r","f","o","r","m","a","n","c","e"," ","E","f","f","i","c","i","e","n","c","y"," ","|"," ","a"," ","|"," ","b"," ","|"," ","H","i","g","h"," ","|"," ","c","<","b","r",">","c"," ","|">>,
  <<"|","S","e","c","u","r","i","t","y","|","a","|","b","|","c","|","d">>,
  <<"|"," ","N","o","t","e","s"," ","|"," ","S","e","c","u","r","i","t","y"," ","|"," ","x"," ","|"," ","y"," ","|"," ","z"," ","|">>
}

LineSeqs == UNION {[1..n -> LineSet] : n \in 0..MaxLines}

TextSet == {Join(ls, <<"\n">>) : ls \in LineSeqs}

\* ------------------------------------------------------------------- Init
RenderIdle ==
  /\ shown_pillars = <<>>
  /\ high_priority_items = <<>>
  /\ display_lines = <<>>
  /\ json_export = <<>>
  /\ report_items = <<>>
  /\ report_text = <<>>

ParseIdle ==
  /\ lines = <<>>
  /\ idx = 0
  /\ results = <<>>
  /\ ret = "pending"
  /\ errors = 0

NoResponse ==
  [kind |-> "none", status |-> 0, json_ok |-> FALSE, has_analysis |-> FALSE,
   analysis |-> <<>>, has_error |-> FALSE]

MainIdle ==
  /\ image_len = 0
  /\ image_valid = FALSE
  /\ reencoded = 0
  /\ calls = 0
  /\ response = NoResponse

NoEvent == [httpMethod |-> "", body |-> "absent", image |-> "absent"]
NoReply == [raised |-> FALSE, has_output |-> FALSE, has_message |-> FALSE,
            has_content |-> FALSE, content |-> <<>>]
NoExtract == [ok |-> FALSE, text |-> "", error |-> ""]
NoLambdaResponse ==
  [statusCode |-> 0, headers |-> {},
   body |-> [kind |-> "empty", error |-> "", analysis |-> "", raw_response |-> FALSE]]

LambdaIdle ==
  /\ event = NoEvent
  /\ model_reply = NoReply
  /\ model_calls = 0
  /\ extracted = NoExtract
  /\ lambda_response = NoLambdaResponse

\* a call of parse_analysis_results followed by the rendering of its result
Init ==
  /\ analysis_text \in TextSet
  /\ pc = "start"
  /\ ParseIdle
  /\ RenderIdle
  /\ MainIdle
  /\ LambdaIdle

\* ---------------------------------------------- parse_analysis_results steps
\* if not analysis_text: st.error(...); return None
ParseEmpty ==
  /\ pc = "start"
  /\ analysis_text = <<>>
  /\ errors' = errors + 1
  /\ ret' = "None"
  /\ pc' = "failed"
  /\ UNCHANGED <<analysis_text, lines, idx, results, renderVars, mainVars, lambdaVars>>

\* results = {...}; lines = analysis_text.split('\n')
ParseStart ==
  /\ pc = "start"
  /\ analysis_text # <<>>
  /\ results' = InitialResults
  /\ lines' = Split(analysis_text, <<"\n">>)
  /\ idx' = 0
  /\ pc' = "loop"
  /\ UNCHANGED <<analysis_text, ret, errors, renderVars, mainVars, lambdaVars>>

InLoop == pc = "loop" /\ idx < Len(lines)

Advance ==
  /\ idx' = idx + 1
  /\ results' = LoopBody(results, lines[idx + 1])
  /\ UNCHANGED <<analysis_text, lines, pc, ret, errors, renderVars, mainVars, lambdaVars>>

\* blank line or separator row: continue
SkipLine == InLoop /\ IsSkipped(lines[idx + 1]) /\ Advance

\* a line that does not begin with '|'
NonTableLine ==
  /\ InLoop
  /\ ~IsSkipped(lines[idx + 1])
  /\ ~IsTableRow(lines[idx + 1])
  /\ Advance

\* a row with fewer than 5 non-empty cells
ShortRow ==
  /\ InLoop
  /\ IsTableRow(lines[idx + 1])
  /\ ~IsCandidate(lines[idx + 1])
  /\ Advance

\* a row of 5 or more cells whose first cell names no known pillar
UnmatchedRow ==
  /\ InLoop
  /\ IsCandidate(lines[idx + 1])
  /\ ~IsMatched(results, lines[idx + 1])
  /\ Advance

\* a row whose first cell contains a known pillar: the four fields are stored
UpdateRow == InLoop /\ IsMatched(results, lines[idx + 1]) /\ Advance

\* has_content false: st.error(...); return None
ParseFail ==
  /\ pc = "loop"
  /\ idx = Len(lines)
  /\ ~HasContent(results)
  /\ errors' = errors + 1
  /\ ret' = "None"
  /\ pc' = "failed"
  /\ UNCHANGED <<analysis_text, lines, idx, results, renderVars, mainVars, lambdaVars>>

\* return results
ParseReturn ==
  /\ pc = "loop"
  /\ idx = Len(lines)
  /\ HasContent(results)
  /\ ret' = "results"
  /\ pc' = "parsed"
  /\ UNCHANGED <<analysis_text, lines, idx, results, errors, renderVars, mainVars, lambdaVars>>

\* display_results(results)
DisplayResults ==
  /\ pc = "parsed"
  /\ shown_pillars' = ShownPillars(results)
  /\ high_priority_items' = DisplayHighPriority(results)
  /\ display_lines' = DisplayLines(DisplayHighPriority(results))
  /\ pc' = "displayed"
  /\ UNCHANGED <<analysis_text, lines, idx, results, ret, errors,
                 json_export, report_items, report_text, mainVars, lambdaVars>>

\* result_json = json.dumps(results, indent=2)
JsonDownload ==
  /\ pc = "displayed"
  /\ json_export' = JsonDumps(results)
  /\ pc' = "json"
  /\ UNCHANGED <<analysis_text, lines, idx, results, ret, errors,
                 shown_pillars, high_priority_items, display_lines,
                 report_items, report_text, mainVars, lambdaVars>>

\* report_text = create_download_link(results)
CreateDownloadLink ==
  /\ pc = "json"
  /\ report_items' = ReportHighPriority(results)
  /\ report_text' = CreateReport(results)
  /\ pc' = "exported"
  /\ UNCHANGED <<analysis_text, lines, idx, results, ret, errors,
                 shown_pillars, high_priority_items, display_lines,
                 json_export, mainVars, lambdaVars>>

Next ==
  \/ ParseEmpty
  \/ ParseStart
  \/ SkipLine
  \/ NonTableLine
  \/ ShortRow
  \/ UnmatchedRow
  \/ UpdateRow
  \/ ParseFail
  \/ ParseReturn
  \/ DisplayResults
  \/ JsonDownload
  \/ CreateDownloadLink

Spec == Init /\ [][Next]_vars

\* ------------------------------------------------------------------- main
SizeSlack == 1
MainMaxLines == 1

MAX_SIZE == 5 * 1024 * 1024

\* lengths of the uploaded file around the limit
SizeSet == (MAX_SIZE - SizeSlack)..(MAX_SIZE + SizeSlack)

validate_image_size_strict(n) == n < MAX_SIZE
\* validate_image_size, on len(image_bytes)
validate_image_size(n) == n <= MAX_SIZE

MainTextSet ==
  {Join(ls, <<"\n">>) : ls \in UNION {[1..n -> LineSet] : n \in 0..MainMaxLines}}

\* what requests.post can produce: a timeout, another exception, or a reply
HttpReplies ==
  [kind : {"http"}, status : {200, 400, 500}, json_ok : {FALSE},
   has_analysis : {FALSE}, analysis : {<<>>}, has_error : {FALSE}]
  \cup
  [kind : {"http"}, status : {200, 400, 500}, json_ok : {TRUE},
   has_analysis : {FALSE}, analysis : {<<>>}, has_error : BOOLEAN]
  \cup
  [kind : {"http"}, status : {200}, json_ok : {TRUE},
   has_analysis : {TRUE}, analysis : MainTextSet, has_error : {FALSE}]

Timeout == [NoResponse EXCEPT !.kind = "timeout"]
RequestError == [NoResponse EXCEPT !.kind = "exception"]

\* an uploaded file; image_valid: PIL can decode it
InitMain ==
  /\ image_len \in SizeSet
  /\ image_valid \in BOOLEAN
  /\ reencoded = 0
  /\ calls = 0
  /\ response = NoResponse
  /\ analysis_text = <<>>
  /\ pc = "uploaded"
  /\ ParseIdle
  /\ RenderIdle
  /\ LambdaIdle

\* if not validate_image_size(image_bytes): st.error(...); return
RejectUpload ==
  /\ pc = "uploaded"
  /\ ~validate_image_size(image_len)
  /\ errors' = errors + 1
  /\ pc' = "rejected"
  /\ UNCHANGED <<analysis_text, lines, idx, results, ret, renderVars, mainVars,
                 lambdaVars>>

\* Image.open(...) raises: the except branch of main reports it
OpenFails ==
  /\ pc = "uploaded"
  /\ validate_image_size(image_len)
  /\ ~image_valid
  /\ errors' = errors + 1
  /\ pc' = "done"
  /\ UNCHANGED <<analysis_text, lines, idx, results, ret, renderVars, mainVars,
                 lambdaVars>>

\* the image is shown and the Analyze button is offered
ShowImage ==
  /\ pc = "uploaded"
  /\ validate_image_size(image_len)
  /\ image_valid
  /\ pc' = "ready"
  /\ UNCHANGED <<analysis_text, lines, idx, results, ret, errors, renderVars,
                 mainVars, lambdaVars>>

\* analyze_architecture: convert_to_jpeg raises before the request is made
ConvertFails ==
  /\ pc = "ready"
  /\ reencoded' = reencoded + 1
  /\ errors' = errors + 1
  /\ analysis_text' = <<>>
  /\ pc' = "analyzed"
  /\ UNCHANGED <<lines, idx, results, ret, renderVars, image_len, image_valid,
                 calls, response, lambdaVars>>

ReplyErrorsSilent(r) == 0
\* st.error calls of analyze_architecture for a reply
ReplyErrors(r) ==
  IF r.kind # "http" THEN 1
  ELSE IF r.status = 200 THEN (IF r.json_ok THEN 0 ELSE 1)
  ELSE IF ~r.json_ok \/ r.has_error THEN 2 ELSE 1

\* the value analyze_architecture returns (<<>> stands for None as well as '')
ReplyAnalysis(r) ==
  IF r.kind = "http" /\ r.status = 200 /\ r.json_ok /\ r.has_analysis
  THEN r.analysis ELSE <<>>

Post(r) ==
  /\ pc = "ready"
  /\ reencoded' = reencoded + 1
  /\ calls' = calls + 1
  /\ response' = r
  /\ errors' = errors + ReplyErrors(r)
  /\ analysis_text' = ReplyAnalysis(r)
  /\ pc' = "analyzed"
  /\ UNCHANGED <<lines, idx, results, ret, renderVars, image_len, image_valid,
                 lambdaVars>>

\* except requests.exceptions.Timeout
PostTimeout == \E r \in {Timeout} : Post(r)

\* except Exception
PostRaises == \E r \in {RequestError} : Post(r)

\* response.status_code != 200
PostRejected == \E r \in HttpReplies : r.status # 200 /\ Post(r)

\* response.status_code == 200: return response.json().get('analysis')
PostAnswered == \E r \in HttpReplies : r.status = 200 /\ Post(r)

\* if analysis_result: is false, nothing more is done
NoAnalysis ==
  /\ pc = "analyzed"
  /\ analysis_text = <<>>
  /\ pc' = "done"
  /\ UNCHANGED <<analysis_text, lines, idx, results, ret, errors, renderVars,
                 mainVars, lambdaVars>>

\* results = parse_analysis_results(analysis_result)
CallParse ==
  /\ pc = "analyzed"
  /\ analysis_text # <<>>
  /\ pc' = "start"
  /\ UNCHANGED <<analysis_text, lines, idx, results, ret, errors, renderVars,
                 mainVars, lambdaVars>>

NextMain ==
  \/ RejectUpload
  \/ OpenFails
  \/ ShowImage
  \/ ConvertFails
  \/ PostTimeout
  \/ PostRaises
  \/ PostRejected
  \/ PostAnswered
  \/ NoAnalysis
  \/ CallParse
  \/ ParseStart
  \/ SkipLine
  \/ NonTableLine
  \/ ShortRow
  \/ UnmatchedRow
  \/ UpdateRow
  \/ ParseFail
  \/ ParseReturn
  \/ DisplayResults
  \/ JsonDownload
  \/ CreateDownloadLink

SpecMain == InitMain /\ [][NextMain]_vars

\* ----------------------------------------------------------------- lambda
MaxContent == 2

Headers ==
  {<<"Access-Control-Allow-Origin", "*">>,
   <<"Access-Control-Allow-Headers",
     "Content-Type,X-Amz-Date,Authorization,X-Api-Key,X-Amz-Security-Token">>,
   <<"Access-Control-Allow-Methods", "OPTIONS,POST">>}

\* the API Gateway event: the method, what event['body'] is, and what
\* body.get('image') is when the body is a JSON object
Events ==
  [httpMethod : {"OPTIONS", "POST", "GET", ""},
   body : {"absent", "null", "invalid", "array"}, image : {"absent"}]
  \cup
  [httpMethod : {"OPTIONS", "POST", "GET", ""},
   body : {"object"}, image : {"absent", "null", "empty", "data"}]

\* content blocks of a model message
Blocks ==
  [type : {"text"}, text : {"", "analysis A", "analysis B"}]
  \cup [type : {"image", "toolUse"}, text : {""}]

Contents == UNION {[1..n -> Blocks] : n \in 0..MaxContent}

\* what invoke_model can produce: an exception or a decoded JSON reply
Replies ==
  {[NoReply EXCEPT !.raised = TRUE],
   NoReply,
   [NoReply EXCEPT !.has_output = TRUE],
   [NoReply EXCEPT !.has_output = TRUE, !.has_message = TRUE]}
  \cup
  [raised : {FALSE}, has_output : {TRUE}, has_message : {TRUE},
   has_content : {TRUE}, content : Contents]

Failure(msg) == [ok |-> FALSE, text |-> "", error |-> msg]

\* analyze_architecture of the Lambda, applied to the reply of invoke_model
AnalyzeArchitecture(reply) ==
  IF reply.raised THEN Failure("ClientError")
  ELSE IF reply.has_output /\ reply.has_message
  THEN IF ~reply.has_content THEN Failure("'content'")
       ELSE IF reply.content = <<>> THEN Failure("list index out of range")
       ELSE IF reply.content[1].type # "text" THEN Failure("'text'")
       ELSE [ok |-> TRUE, text |-> reply.content[1].text, error |-> ""]
  ELSE Failure("Unexpected response format from model")

\* the body of a response, as the fields json.dumps writes ('' for OPTIONS)
EmptyBody == [kind |-> "empty", error |-> "", analysis |-> "", raw_response |-> FALSE]
ErrorBody(msg) == [EmptyBody EXCEPT !.kind = "error", !.error = msg]
AnalysisBody(text) ==
  [EmptyBody EXCEPT !.kind = "analysis", !.analysis = text, !.raw_response = TRUE]

Respond(code, body) == [statusCode |-> code, headers |-> Headers, body |-> body]

\* str(e) of the exception json.loads(event['body']) or body.get raises
BodyError(b) ==
  CASE b = "absent" -> "'body'"
    [] b = "null" -> "the JSON object must be str, bytes or bytearray, not NoneType"
    [] b = "invalid" -> "Expecting value: line 1 column 1 (char 0)"
    [] b = "array" -> "'list' object has no attribute 'get'"
    [] OTHER -> ""

InitLambda ==
  /\ event \in Events
  /\ model_reply = NoReply
  /\ model_calls = 0
  /\ extracted = NoExtract
  /\ lambda_response = NoLambdaResponse
  /\ pc = "l_start"
  /\ analysis_text = <<>>
  /\ ParseIdle
  /\ RenderIdle
  /\ MainIdle

\* if event.get('httpMethod') == 'OPTIONS'
Preflight ==
  /\ pc = "l_start"
  /\ event.httpMethod = "OPTIONS"
  /\ lambda_response' = Respond(200, EmptyBody)
  /\ pc' = "l_done"
  /\ UNCHANGED <<analysis_text, lines, idx, results, ret, errors, renderVars,
                 mainVars, event, model_reply, model_calls, extracted>>

\* json.loads(event['body']) or body.get('image') raises: the except branch
BodyRaises ==
  /\ pc = "l_start"
  /\ event.httpMethod # "OPTIONS"
  /\ event.body # "object"
  /\ lambda_response' = Respond(500, ErrorBody(BodyError(event.body)))
  /\ pc' = "l_done"
  /\ UNCHANGED <<analysis_text, lines, idx, results, ret, errors, renderVars,
                 mainVars, event, model_reply, model_calls, extracted>>

\* if not image_base64
MissingImage ==
  /\ pc = "l_start"
  /\ event.httpMethod # "OPTIONS"
  /\ event.body = "object"
  /\ event.image # "data"
  /\ lambda_response' = Respond(400, ErrorBody("Image data is required"))
  /\ pc' = "l_done"
  /\ UNCHANGED <<analysis_text, lines, idx, results, ret, errors, renderVars,
                 mainVars, event, model_reply, model_calls, extracted>>

\* bedrock_runtime.invoke_model(...)
InvokeModel ==
  /\ pc = "l_start"
  /\ event.httpMethod # "OPTIONS"
  /\ event.body = "object"
  /\ event.image = "data"
  /\ model_calls' = model_calls + 1
  /\ model_reply' \in Replies
  /\ pc' = "l_invoked"
  /\ UNCHANGED <<analysis_text, lines, idx, results, ret, errors, renderVars,
                 mainVars, event, extracted, lambda_response>>

\* analyze_architecture raises: the handler answers 500 with str(e)
AnalysisFails ==
  /\ pc = "l_invoked"
  /\ ~AnalyzeArchitecture(model_reply).ok
  /\ extracted' = AnalyzeArchitecture(model_reply)
  /\ lambda_response' = Respond(500, ErrorBody(AnalyzeArchitecture(model_reply).error))
  /\ pc' = "l_done"
  /\ UNCHANGED <<analysis_text, lines, idx, results, ret, errors, renderVars,
                 mainVars, event, model_reply, model_calls>>

\* analyze_architecture returns the text: the handler answers 200
AnalysisReturned ==
  /\ pc = "l_invoked"
  /\ AnalyzeArchitecture(model_reply).ok
  /\ extracted' = AnalyzeArchitecture(model_reply)
  /\ lambda_response' = Respond(200, AnalysisBody(AnalyzeArchitecture(model_reply).text))
  /\ pc' = "l_done"
  /\ UNCHANGED <<analysis_text, lines, idx, results, ret, errors, renderVars,
                 mainVars, event, model_reply, model_calls>>

NextLambda ==
  \/ Preflight
  \/ BodyRaises
  \/ MissingImage
  \/ InvokeModel
  \/ AnalysisFails
  \/ AnalysisReturned

SpecLambda == InitLambda /\ [][NextLambda]_vars

\* ----------------------------------------------------------------- claims
\* cells of a row: split on '|', each cell trimmed, empty cells at both ends dropped
TrimmedCells(raw) ==
  LET cells == Split(Strip(raw), <<"|">>)
  IN StripChars([i \in 1..Len(cells) |-> Strip(cells[i])], {<<>>})

FirstCell(raw) ==
  LET cells == TrimmedCells(raw) IN IF cells = <<>> THEN <<>> ELSE cells[1]

\* the first pillar, in enumeration order, whose name occurs in the cell (0: none)
FirstPillarIn(cell) ==
  LET hits == {i \in 1..6 : Contains(PillarOrder[i], cell)}
  IN IF hits = {} THEN 0 ELSE CHOOSE i \in hits : \A j \in hits : i <= j

\* a candidate data row: begins with '|', is no separator, has 5 non-empty cells
CandidateRow(raw) ==
  LET line == Strip(raw)
      cells == TrimmedCells(raw)
  IN /\ line # <<>>
     /\ StartsWith(line, <<"|">>)
     /\ ~StartsWith(line, SeparatorPrefix)
     /\ Cardinality({i \in 1..Len(cells) : cells[i] # <<>>}) >= 5

\* the pillar number a line is a matched candidate row for (0: none)
RowPillar(raw) ==
  IF CandidateRow(raw) THEN FirstPillarIn(FirstCell(raw)) ELSE 0

\* index of the last processed candidate row matched to pillar number i (0: none)
LastMatch(i) ==
  LET hits == {j \in 1..idx : RowPillar(lines[j]) = i}
  IN IF hits = {} THEN 0 ELSE CHOOSE j \in hits : \A k \in hits : k <= j

Fields(d) == <<d.strengths, d.risks, d.risk_level, d.recommendations>>

\* C1: once parse has built its record, the keys are exactly the six pillars in
\* enumeration order after every processed line, and a pillar no row has
\* matched holds empty sequences and an empty risk level.
C1_SixPillarKeys ==
  results # <<>> =>
    /\ Keys(results) = PillarOrder
    /\ \A i \in 1..6 :
         LastMatch(i) = 0 => results[i] = EmptyDetails(PillarOrder[i])

C1_Witness ==
  /\ pc = "parsed"
  /\ \E i \in 1..Len(results) : AnyValues(results[i])
  /\ \E i \in 1..Len(results) : ~AnyValues(results[i])
  /\ \E j \in 1..Len(lines) : CandidateRow(lines[j]) /\ FirstPillarIn(FirstCell(lines[j])) = 0

\* the reference transform of the claim: split on '<br>', trim, remove one
\* leading "- ", drop empty fragments
RefFragment(f) ==
  LET t == Strip(f)
  IN IF StartsWith(t, <<"-", " ">>) THEN SubSeq(t, 3, Len(t)) ELSE t

RefTransform(cell) ==
  LET raw == Split(cell, BR)
  IN NonEmpty([i \in 1..Len(raw) |-> RefFragment(raw[i])])

\* C2: for every matched row the stored strengths, risks and recommendations
\* are the reference transform of cells 1, 2 and 4 of that row.
C2_ReferenceTransform ==
  results # <<>> =>
    \A i \in 1..6 :
      LastMatch(i) # 0 =>
        LET parts == Parts(Strip(lines[LastMatch(i)]))
        IN /\ results[i].strengths = RefTransform(parts[2])
           /\ results[i].risks = RefTransform(parts[3])
           /\ results[i].recommendations = RefTransform(parts[5])

\* C3: every pillar holds the four fields of the last processed row matched
\* to it (all four replaced together), and the defaults if there is none.
C3_LastRowWins ==
  results # <<>> =>
    \A i \in 1..6 :
      IF LastMatch(i) = 0
      THEN Fields(results[i]) = <<<<>>, <<>>, <<>>, <<>>>>
      ELSE LET parts == Parts(Strip(lines[LastMatch(i)]))
           IN Fields(results[i]) =
                <<Fragments(parts[2]), Fragments(parts[3]), parts[4],
                  Fragments(parts[5])>>

C3_Witness ==
  /\ pc = "parsed"
  /\ \E i \in 1..6 : \E j, k \in 1..Len(lines) :
       /\ j < k
       /\ RowPillar(lines[j]) = i
       /\ RowPillar(lines[k]) = i
       /\ Parts(Strip(lines[j])) # Parts(Strip(lines[k]))

\* no row of the text has a known pillar name in its first cell
NoPillarRow(text) ==
  LET rows == Split(text, <<"\n">>)
  IN \A j \in 1..Len(rows) :
       StartsWith(Strip(rows[j]), <<"|">>) => FirstPillarIn(FirstCell(rows[j])) = 0

\* C4: a text none of whose rows names a pillar in its first cell never makes
\* parse return a record: the call ends with None and an error shown.
C4_NoPillarFails ==
  NoPillarRow(analysis_text) =>
    /\ ret # "results"
    /\ pc \notin {"start", "loop"} => (ret = "None" /\ errors = 1)

C4_Witness ==
  /\ pc = "failed"
  /\ NoPillarRow(analysis_text)
  /\ \E j \in 1..Len(lines) : CandidateRow(lines[j])
  /\ \E j \in 1..Len(lines) : ~StartsWith(Strip(lines[j]), <<"|">>) /\ Strip(lines[j]) # <<>>

\* s equals "HIGH" up to the case of its letters
IsHighIgnoringCase(s) ==
  /\ Len(s) = 4
  /\ s[1] \in {"h", "H"}
  /\ s[2] \in {"i", "I"}
  /\ s[3] \in {"g", "G"}
  /\ s[4] \in {"h", "H"}

RECURSIVE Flatten(_)
Flatten(xss) == IF xss = <<>> THEN <<>> ELSE Head(xss) \o Flatten(Tail(xss))

\* one "pillar: recommendation" item per recommendation of every High pillar
ExpectedHighPriority(res) ==
  Flatten([i \in 1..6 |->
    IF IsHighIgnoringCase(res[i].risk_level)
    THEN [k \in 1..Len(res[i].recommendations) |->
            PillarOrder[i] \o <<":", " ">> \o res[i].recommendations[k]]
    ELSE <<>>])

\* C5: the on-screen high-priority list is exactly the recommendations of the
\* pillars whose risk level is HIGH in any letter case, in pillar then
\* recommendation order, and the report's list is the same sequence.
C5_HighPriorityItems ==
  /\ pc \in {"displayed", "exported"} =>
       high_priority_items = ExpectedHighPriority(results)
  /\ pc = "exported" => report_items = high_priority_items

C5_Witness ==
  /\ pc = "exported"
  /\ \E i \in 1..6 :
       /\ results[i].risk_level = <<"h", "i", "g", "h">>
       /\ Len(results[i].recommendations) >= 2
  /\ \E i \in 1..6 :
       /\ ~IsHighIgnoringCase(results[i].risk_level)
       /\ results[i].recommendations # <<>>

\* C9: the four fields of a matched row come from cells 1..4 by position, where
\* only the empty cells at the two ends of the row are dropped.
C9_PositionalCells ==
  results # <<>> =>
    \A i \in 1..6 :
      LastMatch(i) # 0 =>
        LET cells == TrimmedCells(lines[LastMatch(i)])
        IN Fields(results[i]) =
             <<Fragments(cells[2]), Fragments(cells[3]), cells[4],
               Fragments(cells[5])>>

FiveMiB == 5242880

\* C6: an upload longer than 5 MiB is rejected before any re-encoding and
\* before any request, and an upload of 5 MiB or less is never rejected.
C6_SizeLimit ==
  /\ image_len > FiveMiB =>
       /\ pc \in {"uploaded", "rejected"}
       /\ reencoded = 0
       /\ calls = 0
       /\ pc = "rejected" => errors = 1
  /\ image_len <= FiveMiB => pc # "rejected"

C6_Witness ==
  /\ pc = "rejected"
  /\ image_len = FiveMiB + 1
  /\ calls = 0

\* the request got a success reply carrying analysis text
CallSucceeded ==
  /\ response.kind = "http"
  /\ response.status = 200
  /\ response.json_ok
  /\ response.has_analysis

\* the request timed out, raised, or came back with a non-success status
CallFailed ==
  \/ response.kind \in {"timeout", "exception"}
  \/ response.kind = "http" /\ response.status # 200
  \/ response.kind = "http" /\ ~response.json_ok

Rendered ==
  \/ pc \in {"parsed", "displayed", "json", "exported"}
  \/ display_lines # <<>>
  \/ json_export # <<>>
  \/ report_text # <<>>

\* C10: results, JSON export and report appear only after a successful call
\* and a parse that returned a record with content; a failed call or a failed
\* parse ends the run with an error shown and nothing rendered; the request is
\* sent at most once.
C10_FailFast ==
  /\ calls <= 1
  /\ Rendered =>
       /\ calls = 1
       /\ CallSucceeded
       /\ ret = "results"
       /\ results # InitialResults
  /\ (calls = 1 /\ CallFailed) =>
       (errors >= 1 /\ pc \in {"analyzed", "done"} /\ ~Rendered)
  /\ pc = "failed" => (errors >= 1 /\ ~Rendered /\ ret = "None")
  /\ pc = "done" => ~Rendered

C10_Witness ==
  /\ pc = "exported"
  /\ calls = 1
  /\ json_export # <<>>
  /\ report_text # <<>>
  /\ errors = 0

\* the request carries no usable image
ImageMissing ==
  \/ event.body \in {"absent", "null"}
  \/ event.body = "object" /\ event.image # "data"

\* C7: every response has the preflight's CORS headers; OPTIONS gets 200 with
\* an empty body and no model call; a POST without an image gets 400 with an
\* error and no model call; a failed model call or extraction gets 500 with an
\* error; a successful one gets 200 with the model text as analysis.
C7_ResponseClasses ==
  pc = "l_done" =>
    /\ lambda_response.headers = Headers
    /\ event.httpMethod = "OPTIONS" =>
         /\ lambda_response.statusCode = 200
         /\ lambda_response.body.kind = "empty"
         /\ model_calls = 0
    /\ (event.httpMethod = "POST" /\ ImageMissing) =>
         /\ lambda_response.statusCode = 400
         /\ lambda_response.body.kind = "error"
         /\ model_calls = 0
    /\ (event.httpMethod = "POST" /\ model_calls = 1 /\ ~extracted.ok) =>
         /\ lambda_response.statusCode = 500
         /\ lambda_response.body.kind = "error"
    /\ (event.httpMethod = "POST" /\ model_calls = 1 /\ extracted.ok) =>
         /\ lambda_response.statusCode = 200
         /\ lambda_response.body.kind = "analysis"
         /\ lambda_response.body.analysis = extracted.text

\* the reply has an output message with at least one text content block
HasTextBlock(reply) ==
  /\ ~reply.raised
  /\ reply.has_output
  /\ reply.has_message
  /\ reply.has_content
  /\ \E i \in 1..Len(reply.content) : reply.content[i].type = "text"

FirstTextBlock(reply) ==
  reply.content[CHOOSE i \in 1..Len(reply.content) :
                  /\ reply.content[i].type = "text"
                  /\ \A j \in 1..(i - 1) : reply.content[j].type # "text"]

\* C8: the Bedrock call returns text exactly when the reply has an output
\* message with a text content block, and then the text of the first one.
C8_FirstTextBlock ==
  pc = "l_done" /\ model_calls = 1 =>
    /\ extracted.ok <=> HasTextBlock(model_reply)
    /\ extracted.ok => extracted.text = FirstTextBlock(model_reply).text

====
